---- MODULE Spec2Model ----
(***************************************************************************)
(* A model of chipper's PhET-iO API comparison, js/phet-io/compareAPIs.js, *)
(* and of some of chipper's build utilities.                               *)
(*                                                                         *)
(* compareAPIs is a pure function of two API descriptions.  A description  *)
(* is a JavaScript object whose phetioElements property maps phetioIDs to  *)
(* metadata objects.  A JavaScript object is modelled by the sequence of   *)
(* its own keys, in the order Object.keys enumerates them, and a function  *)
(* from those keys to the property values.  A JavaScript value is a record *)
(* of its type and of the text a template literal renders it as, so that   *)
(* the boolean true and the string "true" are different values with the    *)
(* same text.                                                              *)
(*                                                                         *)
(* Each of the utilities is a function too, with a specification of its    *)
(* own: args holds the arguments of the one call and result what the call  *)
(* returned or threw.  There a string is the sequence of its characters.   *)
(***************************************************************************)
EXTENDS Integers, Sequences, FiniteSets, TLC

VARIABLES api1, api2, problems, pc, args, result

vars == <<api1, api2, problems, pc, args, result>>

\* the value of the variables a specification does not use
Unused == <<>>

-----------------------------------------------------------------------------
(* JavaScript values *)

Undefined == [type |-> "undefined", str |-> "undefined"]

Bool(b) == [type |-> "boolean", str |-> IF b THEN "true" ELSE "false"]

Str(s) == [type |-> "string", str |-> s]

\* `${value}` inside a template literal
Stringify(value) == value.str

\* a !== b
StrictNotEqual(a, b) == a.type /= b.type \/ a.str /= b.str

\* a === b
StrictEqual(a, b) == ~StrictNotEqual(a, b)

\* object[ key ]: the value of an own property, undefined when it is absent
Get(object, key) == IF key \in DOMAIN object THEN object[key] ELSE Undefined

Range(seq) == {seq[i] : i \in 1..Len(seq)}

-----------------------------------------------------------------------------
(* The array helpers compareAPIs calls *)

\* Object.keys( api.phetioElements )
ObjectKeys(object) == object.keys

\* _.isEqual on two arrays of strings
IsEqual(array1, array2) ==
  /\ Len(array1) = Len(array2)
  /\ \A i \in 1..Len(array1) : array1[i] = array2[i]

\* array.includes( e )
Includes(array, e) == \E i \in 1..Len(array) : array[i] = e

\* array.join( separator )
RECURSIVE Join(_, _)
Join(array, separator) ==
  IF Len(array) = 0 THEN ""
  ELSE IF Len(array) = 1 THEN array[1]
  ELSE array[1] \o separator \o Join(Tail(array), separator)

-----------------------------------------------------------------------------
(* compareAPIs *)

\* MissingFrom2 with the two arrays exchanged
MissingFrom2Exchanged(elements1, elements2) ==
  SelectSeq(elements2, LAMBDA e : ~Includes(elements1, e))

\* elements1.filter( e => !elements2.includes( e ) )
MissingFrom2(elements1, elements2) ==
  SelectSeq(elements1, LAMBDA e : ~Includes(elements2, e))

\* the Problem pushed for the removed elements
MissingProblem(missingFrom2) ==
  [message |-> "Second API missing elements:\n\t" \o Join(missingFrom2, "\n\t")]

\* ElementSetCheck that also lists what the first API is missing
ElementSetCheckBothWays(elements1, elements2) ==
  IF ~IsEqual(elements1, elements2)
  THEN IF Len(MissingFrom2(elements1, elements2) \o MissingFrom2(elements2, elements1)) > 0
       THEN <<MissingProblem(MissingFrom2(elements1, elements2)
                               \o MissingFrom2(elements2, elements1))>>
       ELSE <<>>
  ELSE <<>>

\* ElementSetCheck that pushes a Problem whenever the key arrays differ
ElementSetCheckUnguarded(elements1, elements2) ==
  IF ~IsEqual(elements1, elements2)
  THEN <<MissingProblem(MissingFrom2(elements1, elements2))>>
  ELSE <<>>

\* the element-set check: what it pushes onto problems
ElementSetCheck(elements1, elements2) ==
  IF ~IsEqual(elements1, elements2)
  THEN IF Len(MissingFrom2(elements1, elements2)) > 0
       THEN <<MissingProblem(MissingFrom2(elements1, elements2))>>
       ELSE <<>>
  ELSE <<>>

\* ChangedProblem with the old and the new value exchanged
ChangedProblemExchanged(phetioID, metadataKey, oldValue, newValue) ==
  [message |-> phetioID \o "." \o metadataKey \o " changed from "
                 \o Stringify(newValue) \o " to " \o Stringify(oldValue)]

\* the Problem pushed for a changed metadata value
ChangedProblem(phetioID, metadataKey, oldValue, newValue) ==
  [message |-> phetioID \o "." \o metadataKey \o " changed from "
                 \o Stringify(oldValue) \o " to " \o Stringify(newValue)]

\* ReportDifferences whose directional check forgets that the value must differ
ReportDifferencesUnchanged(a1, a2, phetioID, metadataKey, invalidNewValue) ==
  LET oldValue == Get(a1.phetioElements.props[phetioID], metadataKey)
      newValue == Get(a2.phetioElements.props[phetioID], metadataKey)
  IN  IF StrictEqual(invalidNewValue, Undefined)
      THEN IF StrictNotEqual(oldValue, newValue)
           THEN <<ChangedProblem(phetioID, metadataKey, oldValue, newValue)>>
           ELSE <<>>
      ELSE IF StrictEqual(newValue, invalidNewValue)
           THEN <<ChangedProblem(phetioID, metadataKey, oldValue, newValue)>>
           ELSE <<>>

\* ReportDifferences that skips a value that is undefined on either side
ReportDifferencesDefined(a1, a2, phetioID, metadataKey, invalidNewValue) ==
  LET oldValue == Get(a1.phetioElements.props[phetioID], metadataKey)
      newValue == Get(a2.phetioElements.props[phetioID], metadataKey)
  IN  IF /\ StrictNotEqual(oldValue, newValue)
         /\ StrictNotEqual(oldValue, Undefined)
         /\ StrictNotEqual(newValue, Undefined)
      THEN IF StrictEqual(invalidNewValue, Undefined)
           THEN <<ChangedProblem(phetioID, metadataKey, oldValue, newValue)>>
           ELSE IF StrictEqual(newValue, invalidNewValue)
                THEN <<ChangedProblem(phetioID, metadataKey, oldValue, newValue)>>
                ELSE <<>>
      ELSE <<>>

\* reportDifferences( metadataKey, invalidNewValue ) for one phetioID: what it
\* pushes onto problems.  A call with one argument leaves invalidNewValue
\* undefined.
ReportDifferences(a1, a2, phetioID, metadataKey, invalidNewValue) ==
  LET oldValue == Get(a1.phetioElements.props[phetioID], metadataKey)
      newValue == Get(a2.phetioElements.props[phetioID], metadataKey)
  IN  IF StrictNotEqual(oldValue, newValue)
      THEN IF StrictEqual(invalidNewValue, Undefined)
           THEN <<ChangedProblem(phetioID, metadataKey, oldValue, newValue)>>
           ELSE IF StrictEqual(newValue, invalidNewValue)
                THEN <<ChangedProblem(phetioID, metadataKey, oldValue, newValue)>>
                ELSE <<>>
      ELSE <<>>

\* MetadataChecks whose phetioState call lost its second argument
MetadataChecksStateSymmetric(a1, a2, phetioID) ==
     ReportDifferences(a1, a2, phetioID, "phetioTypeName", Undefined)
  \o ReportDifferences(a1, a2, phetioID, "phetioEventType", Undefined)
  \o ReportDifferences(a1, a2, phetioID, "phetioPlayback", Undefined)
  \o ReportDifferences(a1, a2, phetioID, "phetioDynamicElement", Undefined)
  \o ReportDifferences(a1, a2, phetioID, "phetioIsArchetype", Undefined)
  \o ReportDifferences(a1, a2, phetioID, "phetioArchetypePhetioID", Undefined)
  \o ReportDifferences(a1, a2, phetioID, "phetioState", Undefined)
  \o ReportDifferences(a1, a2, phetioID, "phetioReadOnly", Bool(TRUE))

\* MetadataChecks whose phetioReadOnly call has the invalid value of phetioState
MetadataChecksReadOnlyFalse(a1, a2, phetioID) ==
     ReportDifferences(a1, a2, phetioID, "phetioTypeName", Undefined)
  \o ReportDifferences(a1, a2, phetioID, "phetioEventType", Undefined)
  \o ReportDifferences(a1, a2, phetioID, "phetioPlayback", Undefined)
  \o ReportDifferences(a1, a2, phetioID, "phetioDynamicElement", Undefined)
  \o ReportDifferences(a1, a2, phetioID, "phetioIsArchetype", Undefined)
  \o ReportDifferences(a1, a2, phetioID, "phetioArchetypePhetioID", Undefined)
  \o ReportDifferences(a1, a2, phetioID, "phetioState", Bool(FALSE))
  \o ReportDifferences(a1, a2, phetioID, "phetioReadOnly", Bool(FALSE))

\* MetadataChecks that checks phetioFeatured too
MetadataChecksFeatured(a1, a2, phetioID) ==
     ReportDifferences(a1, a2, phetioID, "phetioTypeName", Undefined)
  \o ReportDifferences(a1, a2, phetioID, "phetioEventType", Undefined)
  \o ReportDifferences(a1, a2, phetioID, "phetioPlayback", Undefined)
  \o ReportDifferences(a1, a2, phetioID, "phetioDynamicElement", Undefined)
  \o ReportDifferences(a1, a2, phetioID, "phetioIsArchetype", Undefined)
  \o ReportDifferences(a1, a2, phetioID, "phetioArchetypePhetioID", Undefined)
  \o ReportDifferences(a1, a2, phetioID, "phetioState", Bool(FALSE))
  \o ReportDifferences(a1, a2, phetioID, "phetioReadOnly", Bool(TRUE))
  \o ReportDifferences(a1, a2, phetioID, "phetioFeatured", Undefined)

\* MetadataChecks that stops at the first difference it reports
MetadataChecksFirstOnly(a1, a2, phetioID) ==
  LET all ==
          ReportDifferences(a1, a2, phetioID, "phetioTypeName", Undefined)
       \o ReportDifferences(a1, a2, phetioID, "phetioEventType", Undefined)
       \o ReportDifferences(a1, a2, phetioID, "phetioPlayback", Undefined)
       \o ReportDifferences(a1, a2, phetioID, "phetioDynamicElement", Undefined)
       \o ReportDifferences(a1, a2, phetioID, "phetioIsArchetype", Undefined)
       \o ReportDifferences(a1, a2, phetioID, "phetioArchetypePhetioID", Undefined)
       \o ReportDifferences(a1, a2, phetioID, "phetioState", Bool(FALSE))
       \o ReportDifferences(a1, a2, phetioID, "phetioReadOnly", Bool(TRUE))
  IN  IF all = <<>> THEN <<>> ELSE <<Head(all)>>

\* the metadata checks of one phetioID that appears in both, in their order
MetadataChecks(a1, a2, phetioID) ==
     ReportDifferences(a1, a2, phetioID, "phetioTypeName", Undefined)
  \o ReportDifferences(a1, a2, phetioID, "phetioEventType", Undefined)
  \o ReportDifferences(a1, a2, phetioID, "phetioPlayback", Undefined)
  \o ReportDifferences(a1, a2, phetioID, "phetioDynamicElement", Undefined)
  \o ReportDifferences(a1, a2, phetioID, "phetioIsArchetype", Undefined)
  \o ReportDifferences(a1, a2, phetioID, "phetioArchetypePhetioID", Undefined)
  \o ReportDifferences(a1, a2, phetioID, "phetioState", Bool(FALSE))
  \o ReportDifferences(a1, a2, phetioID, "phetioReadOnly", Bool(TRUE))

\* the body of the elements1.forEach callback
ForEachBody(a1, a2, elements2, phetioID) ==
  IF Includes(elements2, phetioID)
  THEN MetadataChecks(a1, a2, phetioID)
  ELSE <<>>

\* the callback on each of ids that elements1 includes
RECURSIVE ForEachOf(_, _, _, _, _)
ForEachOf(a1, a2, ids, elements1, elements2) ==
  IF Len(ids) = 0 THEN <<>>
  ELSE (IF Includes(elements1, Head(ids))
        THEN ForEachBody(a1, a2, elements2, Head(ids))
        ELSE <<>>)
         \o ForEachOf(a1, a2, Tail(ids), elements1, elements2)

\* ForEach that goes through the shared elements in the order of elements2
ForEachSecondOrder(a1, a2, elements1, elements2) ==
  ForEachOf(a1, a2, elements2, elements1, elements2)

\* elements1.forEach( phetioID => ... ): what the whole loop pushes
RECURSIVE ForEach(_, _, _, _)
ForEach(a1, a2, elements1, elements2) ==
  IF Len(elements1) = 0 THEN <<>>
  ELSE ForEachBody(a1, a2, elements2, Head(elements1))
         \o ForEach(a1, a2, Tail(elements1), elements2)

\* PhetioElements that takes an absent mapping for an empty one
PhetioElementsDefaulted(api) ==
  IF "phetioElements" \in DOMAIN api
  THEN api.phetioElements
  ELSE [keys |-> <<>>, props |-> <<>>]

\* api.phetioElements: undefined when the description has no such property
PhetioElements(api) ==
  IF "phetioElements" \in DOMAIN api THEN api.phetioElements ELSE Undefined

\* whether Object.keys( value ) throws a TypeError: it does so for undefined
ObjectKeysThrows(value) == "type" \in DOMAIN value /\ value.type = "undefined"

\* CompareAPIsThrows that also throws when the second API misses an element
CompareAPIsThrowsOnMissing(a1, a2) ==
  \/ ObjectKeysThrows(PhetioElements(a1))
  \/ ObjectKeysThrows(PhetioElements(a2))
  \/ Len(MissingFrom2(ObjectKeys(PhetioElements(a1)), ObjectKeys(PhetioElements(a2)))) > 0

\* whether the call throws: it can do so only at the two Object.keys calls
CompareAPIsThrows(a1, a2) ==
  \/ ObjectKeysThrows(PhetioElements(a1))
  \/ ObjectKeysThrows(PhetioElements(a2))

\* module.exports = ( api1, api2 ) => { ... return problems; }
CompareAPIs(a1, a2) ==
  LET elements1 == ObjectKeys(PhetioElements(a1))
      elements2 == ObjectKeys(PhetioElements(a2))
  IN  ElementSetCheck(elements1, elements2)
        \o ForEach(a1, a2, elements1, elements2)

-----------------------------------------------------------------------------
(* The inputs *)

MaxElements == 2

MaxKeys == 2

RecognizedKeys ==
  {"phetioTypeName", "phetioEventType", "phetioPlayback", "phetioDynamicElement",
   "phetioIsArchetype", "phetioArchetypePhetioID", "phetioState", "phetioReadOnly"}

\* the keys the source names as non-breaking, and the attribute names of the
\* prose, which are not keys compareAPIs reads
OtherKeys ==
  {"phetioFeatured", "phetioStudioControl", "phetioHighFrequency",
   "typeName", "state"}

AllKeys == RecognizedKeys \cup OtherKeys

StringKeys == {"phetioTypeName", "phetioEventType", "phetioArchetypePhetioID", "typeName"}

\* the boolean keys whose first value is false
FalseFirstKeys == {"phetioReadOnly", "phetioIsArchetype", "phetioHighFrequency"}

\* the j-th value a key takes: two strings or the two booleans
Variant(key, j) ==
  IF key \in StringKeys
  THEN (IF j = 1 THEN Str("A") ELSE Str("B"))
  ELSE Bool((j = 1) = (key \notin FalseFirstKeys))

EmptyObject == [key \in {} |-> Undefined]

\* the metadata objects over the keys K: none of them set, or all of them set
\* to their first, or to their second, value
MetadataObjects(K) ==
  {EmptyObject} \cup {[key \in K |-> Variant(key, j)] : j \in 1..2}

\* the key orders of an object with at most n keys out of pool
KeyOrders(pool, n) ==
  UNION {{ks \in [1..len -> pool] : \A i, j \in 1..len : i /= j => ks[i] /= ks[j]}
           : len \in 0..n}

APIs(pool, n, K) ==
  UNION {{[phetioElements |-> [keys |-> ks, props |-> props]]
            : props \in [Range(ks) -> MetadataObjects(K)]}
           : ks \in KeyOrders(pool, n)}

AllIds == {"sim.x", "sim.y", "sim.z"}

KeySets(n) == {K \in SUBSET AllKeys : Cardinality(K) \in 1..n}

\* the key sets of the descriptions whose element sets vary
ElementKeySets ==
  {{"phetioTypeName", "phetioState"}, {"phetioReadOnly", "phetioFeatured"}}

\* descriptions of up to MaxElements out of three elements, the metadata of
\* which have the same few keys
ElementSetInputs ==
  \E K \in ElementKeySets :
    /\ api1 \in APIs(AllIds, MaxElements, K)
    /\ api2 \in APIs(AllIds, MaxElements, K)

\* the metadata objects over the keys K: each key absent, or set to its first
\* or to its second value
ProductObjects(K) ==
  UNION {{[key \in J |-> Variant(key, choice[key])] : choice \in [J -> 1..2]}
           : J \in SUBSET K}

SingleElementAPI(object) ==
  [phetioElements |-> [keys |-> <<"sim.x">>, props |-> [id \in {"sim.x"} |-> object]]]

\* descriptions of one shared element, whose metadata has up to MaxKeys keys
MetadataInputs ==
  \E K \in KeySets(MaxKeys) :
    \E old \in ProductObjects(K), new \in ProductObjects(K) :
      /\ api1 = SingleElementAPI(old)
      /\ api2 = SingleElementAPI(new)

EndToEndAPI(typeNameKey, typeName, stateKey, state) ==
  [phetioElements |->
     [keys  |-> <<"sim.x">>,
      props |-> [id \in {"sim.x"} |->
                   [key \in {typeNameKey, stateKey} |->
                      IF key = typeNameKey THEN Str(typeName) ELSE Bool(state)]]]]

\* the end-to-end scenario, under the keys of the prose and under the keys of the code
EndToEndInputs ==
  \E prefixed \in BOOLEAN :
    LET typeNameKey == IF prefixed THEN "phetioTypeName" ELSE "typeName"
        stateKey    == IF prefixed THEN "phetioState" ELSE "state"
    IN  /\ api1 = EndToEndAPI(typeNameKey, "T1", stateKey, TRUE)
        /\ api2 = EndToEndAPI(typeNameKey, "T2", stateKey, FALSE)

\* the values of either type one key of one shared element changes between
MixedValues ==
  {Bool(TRUE), Bool(FALSE), Str("true"), Str("false"), Str("A")}

MixedObjects(key) ==
  {EmptyObject} \cup {[k \in {key} |-> value] : value \in MixedValues}

\* descriptions of one shared element, one key of which has a value of either type
ValueInputs ==
  \E key \in AllKeys :
    \E old \in MixedObjects(key), new \in MixedObjects(key) :
      /\ api1 = SingleElementAPI(old)
      /\ api2 = SingleElementAPI(new)

\* a description without the phetioElements mapping
NoElementsAPI == [phetioTypes |-> EmptyObject]

\* descriptions at least one of which has no phetioElements mapping
MalformedInputs ==
  /\ api1 \in {NoElementsAPI} \cup APIs({"sim.x"}, 1, {"phetioTypeName"})
  /\ api2 \in {NoElementsAPI} \cup APIs({"sim.x"}, 1, {"phetioTypeName"})
  /\ NoElementsAPI \in {api1, api2}

Init ==
  /\ pc = "ready"
  /\ problems = <<>>
  /\ args = Unused
  /\ result = Unused
  /\ \/ ElementSetInputs
     \/ MetadataInputs
     \/ ValueInputs
     \/ EndToEndInputs
     \/ MalformedInputs

\* Compare that takes the elements it has compared out of the second API
CompareDraining ==
  /\ pc = "ready"
  /\ IF CompareAPIsThrows(api1, api2)
     THEN /\ pc' = "thrown"
          /\ UNCHANGED <<problems, api2>>
     ELSE /\ pc' = "done"
          /\ problems' = CompareAPIs(api1, api2)
          /\ api2' = [phetioElements |->
                        [keys  |-> MissingFrom2(ObjectKeys(PhetioElements(api2)),
                                                ObjectKeys(PhetioElements(api1))),
                         props |-> [id \in {e \in DOMAIN api2.phetioElements.props :
                                              ~Includes(ObjectKeys(PhetioElements(api1)), e)}
                                      |-> api2.phetioElements.props[id]]]]
  /\ UNCHANGED <<api1, args, result>>

\* one call of compareAPIs( api1, api2 )
Compare ==
  /\ pc = "ready"
  /\ IF CompareAPIsThrows(api1, api2)
     THEN /\ pc' = "thrown"
          /\ UNCHANGED problems
     ELSE /\ pc' = "done"
          /\ problems' = CompareAPIs(api1, api2)
  /\ UNCHANGED <<api1, api2, args, result>>

Next == Compare

Spec == Init /\ [][Next]_vars

-----------------------------------------------------------------------------
(* What the properties speak of *)

Done == pc = "done"

Elements(api) == Range(api.phetioElements.keys)

Metadata(api, id) == api.phetioElements.props[id]

Shared == Elements(api1) \cap Elements(api2)

Removed == Elements(api1) \ Elements(api2)

Added == Elements(api2) \ Elements(api1)

\* the removed identifiers, in the key order of the first description
RemovedInOrder == SelectSeq(api1.phetioElements.keys, LAMBDA e : e \notin Elements(api2))

\* the six attributes any change of which is a break
SymmetricKeys ==
  {"phetioTypeName", "phetioEventType", "phetioPlayback", "phetioDynamicElement",
   "phetioIsArchetype", "phetioArchetypePhetioID"}

Texts == {"undefined", "true", "false", "A", "B", "T1", "T2"}

ChangeText(id, key, old, new) ==
  id \o "." \o key \o " changed from " \o old \o " to " \o new

\* the messages that report a change of attribute key of identifier id
PairMessagesOf ==
  [id \in AllIds, key \in AllKeys |->
     {ChangeText(id, key, old, new) : old \in Texts, new \in Texts}]

PairMessages(id, key) == PairMessagesOf[id, key]

\* the messages that report a change of some attribute of identifier id
ChangeMessagesOf ==
  [id \in AllIds |-> UNION {PairMessagesOf[id, key] : key \in AllKeys}]

\* whether a message reports a change of some attribute of a shared identifier
IsSharedChange(message) == \E id \in Shared : message \in ChangeMessagesOf[id]

\* how many of the returned Problems report a change of attribute key of id
ProblemsFor(id, key) ==
  Cardinality({i \in 1..Len(problems) : problems[i].message \in PairMessages(id, key)})

\* the returned Problems that are not per-attribute changes of a shared identifier
OtherProblems == SelectSeq(problems, LAMBDA p : ~IsSharedChange(p.message))

RECURSIVE Listed(_)
Listed(ids) == IF ids = <<>> THEN "" ELSE "\n\t" \o Head(ids) \o Listed(Tail(ids))

\* a description without the identifiers outside S
Restrict(api, S) ==
  [phetioElements |->
     [keys  |-> SelectSeq(api.phetioElements.keys, LAMBDA e : e \in S),
      props |-> [id \in Elements(api) \cap S |-> api.phetioElements.props[id]]]]

-----------------------------------------------------------------------------
(* Properties *)

\* C1: comparing a description against itself returns no Problem
Reflexivity == (Done /\ api1 = api2) => problems = <<>>

ReflexivityWitness ==
  /\ Done
  /\ api1 = api2
  /\ \E id \in Shared :
       /\ Get(Metadata(api1, id), "phetioState") = Bool(FALSE)
       /\ Get(Metadata(api1, id), "phetioReadOnly") = Bool(TRUE)

\* C2: the result holds one "Second API missing elements" Problem when an
\* identifier of the first description is absent from the second and none
\* otherwise; its message lists the removed identifiers, each once, each on a
\* line of its own, in the key order of the first description, and no other
RemovedElementDetection ==
  Done =>
    IF Removed = {}
    THEN OtherProblems = <<>>
    ELSE OtherProblems =
           <<[message |-> "Second API missing elements:" \o Listed(RemovedInOrder)]>>

RemovedElementDetectionWitness ==
  /\ Done
  /\ Cardinality(Removed) = 2
  /\ Added /= {}
  /\ Len(problems) = 1

\* C3: the identifiers only the second description has contribute nothing:
\* the result is that of comparing against the second description without
\* them, and it is empty when that is the first description
AdditiveChangesSilent ==
  Done =>
    /\ problems = CompareAPIs(api1, Restrict(api2, Elements(api1)))
    /\ Restrict(api2, Elements(api1)) = api1 => problems = <<>>

AdditiveChangesSilentWitness ==
  /\ Done
  /\ Added /= {}
  /\ Shared /= {}
  /\ Restrict(api2, Elements(api1)) = api1
  /\ \E id \in Shared : DOMAIN Metadata(api1, id) /= {}

\* C4: for a shared identifier and each of the six symmetric attributes there
\* is one Problem when the old and the new value are strictly unequal, an
\* absent one being undefined, and none when they are equal
SymmetricAttributeCheck ==
  Done =>
    \A id \in Shared, key \in SymmetricKeys :
      ProblemsFor(id, key) =
        IF Get(Metadata(api1, id), key) /= Get(Metadata(api2, id), key) THEN 1 ELSE 0

SymmetricAttributeCheckWitness ==
  /\ Done
  /\ \E id \in Shared :
       /\ "phetioPlayback" \notin DOMAIN Metadata(api1, id)
       /\ Get(Metadata(api2, id), "phetioPlayback") = Bool(FALSE)
       /\ Get(Metadata(api1, id), "phetioIsArchetype") = Get(Metadata(api2, id), "phetioIsArchetype")
       /\ "phetioIsArchetype" \in DOMAIN Metadata(api1, id)
       /\ ProblemsFor(id, "phetioPlayback") = 1
       /\ ProblemsFor(id, "phetioIsArchetype") = 0

\* how many of the returned Problems have this message
ProblemsSaying(message) ==
  Cardinality({i \in 1..Len(problems) : problems[i].message = message})

Old(id, key) == Get(Metadata(api1, id), key)

New(id, key) == Get(Metadata(api2, id), key)

\* C5, as stated: a type name changed from "A" to "B" is reported by one
\* Problem whose message is "<id>.typeName changed from A to B"
TypeNameMessageAsStated ==
  Done =>
    \A id \in Shared, key \in {"typeName", "phetioTypeName"} :
      (Old(id, key) = Str("A") /\ New(id, key) = Str("B"))
        => ProblemsSaying(id \o ".typeName changed from A to B") = 1

\* C5: a phetioTypeName changed from "A" to "B" is reported by one Problem,
\* whose message is "<id>.phetioTypeName changed from A to B"
TypeNameMessage ==
  Done =>
    \A id \in Shared :
      (Old(id, "phetioTypeName") = Str("A") /\ New(id, "phetioTypeName") = Str("B"))
        => /\ ProblemsFor(id, "phetioTypeName") = 1
           /\ ProblemsSaying(id \o ".phetioTypeName changed from A to B") = 1

TypeNameMessageWitness ==
  /\ Done
  /\ api1.phetioElements.keys = api2.phetioElements.keys
  /\ \E id \in Shared :
       /\ Old(id, "phetioTypeName") = Str("A")
       /\ New(id, "phetioTypeName") = Str("B")
       /\ problems = <<[message |-> id \o ".phetioTypeName changed from A to B"]>>

\* C6: for a shared identifier phetioState is reported when, and only when,
\* the new value is false and the old value is not
DirectionalStateCheck ==
  Done =>
    \A id \in Shared :
      ProblemsFor(id, "phetioState") =
        IF New(id, "phetioState") = Bool(FALSE) /\ Old(id, "phetioState") /= Bool(FALSE)
        THEN 1 ELSE 0

DirectionalStateCheckWitness ==
  /\ Done
  /\ \E id \in Shared :
       /\ "phetioState" \notin DOMAIN Metadata(api1, id)
       /\ New(id, "phetioState") = Bool(FALSE)
       /\ ProblemsSaying(id \o ".phetioState changed from undefined to false") = 1

\* C7: for a shared identifier phetioReadOnly is reported when, and only
\* when, the new value is true and the old value is not
DirectionalReadOnlyCheck ==
  Done =>
    \A id \in Shared :
      ProblemsFor(id, "phetioReadOnly") =
        IF New(id, "phetioReadOnly") = Bool(TRUE) /\ Old(id, "phetioReadOnly") /= Bool(TRUE)
        THEN 1 ELSE 0

DirectionalReadOnlyCheckWitness ==
  /\ Done
  /\ \E id \in Shared :
       /\ Old(id, "phetioReadOnly") = Bool(FALSE)
       /\ New(id, "phetioReadOnly") = Bool(TRUE)
       /\ ProblemsSaying(id \o ".phetioReadOnly changed from false to true") = 1

\* object with each of the properties keys set to value
Overwrite(object, keys, value) ==
  [k \in DOMAIN object \cup keys |-> IF k \in keys THEN value ELSE object[k]]

\* object without the properties keys
Without(object, keys) == [k \in DOMAIN object \ keys |-> object[k]]

\* the descriptions that are api with the attributes outside the eight
\* recognized ones dropped from every element, or given another value
UnrecognizedVariants(api) ==
  {[phetioElements |->
      [keys  |-> api.phetioElements.keys,
       props |-> [id \in Elements(api) |-> Without(Metadata(api, id), OtherKeys)]]]}
  \cup
  {[phetioElements |->
      [keys  |-> api.phetioElements.keys,
       props |-> [id \in Elements(api) |-> Overwrite(Metadata(api, id), OtherKeys, value)]]]
     : value \in {Bool(TRUE)}}

\* C8: a second description that differs in an attribute outside the eight
\* recognized ones gives the same Problems against the same first description,
\* and there is no Problem when nothing but such attributes differs
ExcludedAttributesNeverReport ==
  Done =>
    /\ \A variant \in UnrecognizedVariants(api2) : CompareAPIs(api1, variant) = problems
    /\ (/\ api1.phetioElements.keys = api2.phetioElements.keys
        /\ \A id \in Shared, key \in RecognizedKeys : Old(id, key) = New(id, key))
         => problems = <<>>

ExcludedAttributesNeverReportWitness ==
  /\ Done
  /\ \E id \in Shared :
       /\ Old(id, "phetioFeatured") = Bool(TRUE)
       /\ New(id, "phetioFeatured") = Bool(FALSE)
  /\ problems = <<>>

\* C9: when the two descriptions have the same identifiers in another order
\* every Problem is a change of an attribute of a shared identifier, and there
\* is none when the metadata are the same
OrderIndependence ==
  (/\ Done
   /\ Elements(api1) = Elements(api2)
   /\ api1.phetioElements.keys /= api2.phetioElements.keys)
    => /\ OtherProblems = <<>>
       /\ api1.phetioElements.props = api2.phetioElements.props => problems = <<>>

OrderIndependenceWitness ==
  /\ Done
  /\ Elements(api1) = Elements(api2)
  /\ api1.phetioElements.keys /= api2.phetioElements.keys
  /\ api1.phetioElements.props = api2.phetioElements.props
  /\ \E id \in Shared : DOMAIN Metadata(api1, id) /= {}

\* whether the change of attribute key of the shared identifier id is a break
Breaking(id, key) ==
  \/ key \in SymmetricKeys /\ Old(id, key) /= New(id, key)
  \/ key = "phetioState" /\ New(id, key) = Bool(FALSE) /\ Old(id, key) /= Bool(FALSE)
  \/ key = "phetioReadOnly" /\ New(id, key) = Bool(TRUE) /\ Old(id, key) /= Bool(TRUE)

BreakingPairs == {idKey \in Shared \X RecognizedKeys : Breaking(idKey[1], idKey[2])}

\* C10, as stated: the descriptions { "sim.x": { typeName: "T1", state: true } }
\* and { "sim.x": { typeName: "T2", state: false } } give two Problems
EndToEndAsStated ==
  (/\ Done
   /\ api1 = EndToEndAPI("typeName", "T1", "state", TRUE)
   /\ api2 = EndToEndAPI("typeName", "T2", "state", FALSE))
    => Len(problems) = 2

\* C10: { "sim.x": { phetioTypeName: "T1", phetioState: true } } and
\* { "sim.x": { phetioTypeName: "T2", phetioState: false } } give two Problems, a
\* phetioTypeName change and a phetioState change; and every breaking
\* attribute of a shared identifier has its own Problem in the one result
EndToEnd ==
  Done =>
    /\ LET breaking == BreakingPairs
       IN  /\ Len(problems) = (IF Removed = {} THEN 0 ELSE 1) + Cardinality(breaking)
           /\ \A idKey \in breaking : ProblemsFor(idKey[1], idKey[2]) = 1
    /\ (/\ api1 = EndToEndAPI("phetioTypeName", "T1", "phetioState", TRUE)
        /\ api2 = EndToEndAPI("phetioTypeName", "T2", "phetioState", FALSE))
         => /\ Len(problems) = 2
            /\ ProblemsSaying("sim.x.phetioTypeName changed from T1 to T2") = 1
            /\ ProblemsSaying("sim.x.phetioState changed from true to false") = 1

EndToEndWitness ==
  /\ Done
  /\ api1 = EndToEndAPI("phetioTypeName", "T1", "phetioState", TRUE)
  /\ api2 = EndToEndAPI("phetioTypeName", "T2", "phetioState", FALSE)
  /\ Len(problems) = 2

\* the recognized attributes, in the order of their checks
DeclarationOrder ==
  <<"phetioTypeName", "phetioEventType", "phetioPlayback", "phetioDynamicElement",
    "phetioIsArchetype", "phetioArchetypePhetioID", "phetioState", "phetioReadOnly">>

IndexIn(seq, e) == CHOOSE i \in 1..Len(seq) : seq[i] = e

\* where a message belongs: 0 for the missing elements; otherwise by the place
\* of its identifier in the first description, then by the place of its attribute
Rank(message) ==
  IF IsSharedChange(message)
  THEN LET id  == CHOOSE e \in Shared : message \in ChangeMessagesOf[e]
           key == CHOOSE k \in RecognizedKeys : message \in PairMessagesOf[id, k]
       IN  IndexIn(api1.phetioElements.keys, id) * (Len(DeclarationOrder) + 1)
             + IndexIn(DeclarationOrder, key)
  ELSE 0

\* C11: the "missing elements" Problem comes first; the others follow by
\* identifier, in the key order of the first description, and for one
\* identifier in the order type name, event type, playback, dynamic element,
\* archetype flag, archetype phetioID, state, readOnly
ProblemOrder ==
  Done =>
    \A i, j \in 1..Len(problems) :
      i < j => Rank(problems[i].message) < Rank(problems[j].message)

ProblemOrderWitness ==
  /\ Done
  /\ api1.phetioElements.keys = <<"sim.y", "sim.x">>
  /\ api2.phetioElements.keys = <<"sim.x", "sim.y">>
  /\ problems = <<[message |-> "sim.y.phetioTypeName changed from A to B"],
                  [message |-> "sim.y.phetioState changed from true to false"],
                  [message |-> "sim.x.phetioTypeName changed from A to B"],
                  [message |-> "sim.x.phetioState changed from true to false"]>>

HasElements(api) == "phetioElements" \in DOMAIN api

MissingMappingThrows ==
  (pc /= "ready" /\ ~(HasElements(api1) /\ HasElements(api2)))
    => (pc = "thrown" /\ problems = <<>>)

MissingMappingThrowsWitness ==
  /\ pc = "thrown"
  /\ HasElements(api1)
  /\ api1.phetioElements.keys /= <<>>
  /\ ~HasElements(api2)

\* C14: for two descriptions that have the mapping the call returns, it does
\* not throw, and the removed identifiers and every breaking attribute are
\* among the Problems it returns
ComparisonTotal ==
  (pc /= "ready" /\ HasElements(api1) /\ HasElements(api2))
    => /\ Done
       /\ Removed /= {}
            => ProblemsSaying("Second API missing elements:" \o Listed(RemovedInOrder)) = 1
       /\ \A id \in Shared, key \in RecognizedKeys :
            Breaking(id, key) => ProblemsFor(id, key) >= 1

ComparisonTotalWitness ==
  /\ Done
  /\ Cardinality(Removed) = 1
  /\ \E id \in Shared : Breaking(id, "phetioTypeName") /\ Breaking(id, "phetioState")
  /\ Len(problems) = 3

(***************************************************************************)
(* Strings of the build utilities: the sequence of the characters.         *)
(***************************************************************************)

\* the strings over an alphabet that are at most n characters long
StringsOver(alphabet, n) == UNION {[1..len -> alphabet] : len \in 0..n}

\* String.prototype.indexOf from a position on: the 0-based index of the
\* first occurrence at or after it, -1 when there is none
IndexOfFrom(str, pattern, from) ==
  LET found == {i \in from..(Len(str) - Len(pattern)) :
                  SubSeq(str, i + 1, i + Len(pattern)) = pattern}
  IN  IF found = {} THEN -1 ELSE CHOOSE i \in found : \A j \in found : i <= j

IndexOf(str, pattern) == IndexOfFrom(str, pattern, 0)

\* String.prototype.slice( begin ) and slice( begin, end ), 0-based, end
\* exclusive and clamped to the length
SliceFrom(str, begin) == SubSeq(str, begin + 1, Len(str))

Slice(str, begin, end) ==
  SubSeq(str, begin + 1, IF end < Len(str) THEN end ELSE Len(str))

\* the text of the value undefined in a string concatenation
UndefinedText == <<"u", "n", "d", "e", "f", "i", "n", "e", "d">>

(***************************************************************************)
(* js/grunt/brandToSuffix.js                                               *)
(***************************************************************************)

\* String.prototype.toUpperCase on one character
ToUpperCase(c) ==
  CASE c = "a" -> "A"
    [] c = "b" -> "B"
    [] c = "f" -> "F"
    [] c = "i" -> "I"
    [] c = "p" -> "P"
    [] OTHER   -> c

\* brand.split( '-' ): the bits between the hyphens, empty ones included
RECURSIVE Split(_)
Split(str) ==
  LET i == IndexOf(str, <<"-">>)
  IN  IF i < 0
      THEN <<str>>
      ELSE <<Slice(str, 0, i)>> \o Split(SliceFrom(str, i + 1))

\* the map callback: index is the 0-based position of the bit
MapBit(bit, index) ==
  (IF bit = <<>>
   THEN UndefinedText
   ELSE IF index > 0 THEN <<ToUpperCase(bit[1])>> ELSE <<bit[1]>>)
    \o SliceFrom(bit, 1)

\* bit[ 0 ].toUpperCase() of an empty bit is a call on undefined
MapBitThrows(bit, index) == index > 0 /\ bit = <<>>

\* join( '' )
RECURSIVE JoinBits(_)
JoinBits(bits) ==
  IF bits = <<>> THEN <<>> ELSE Head(bits) \o JoinBits(Tail(bits))

BrandToSuffixThrows(brand) ==
  LET bits == Split(brand)
  IN  \E i \in 1..Len(bits) : MapBitThrows(bits[i], i - 1)

BrandToSuffix(brand) ==
  LET bits == Split(brand)
  IN  <<"-">> \o JoinBits([i \in 1..Len(bits) |-> MapBit(bits[i], i - 1)])

\* the brands the documentation names
BrandPhet == <<"p", "h", "e", "t">>

BrandPhetIO == <<"p", "h", "e", "t", "-", "i", "o">>

BrandAdaptedFromPhet ==
  <<"a", "d", "a", "p", "t", "e", "d", "-", "f", "r", "o", "m", "-",
    "p", "h", "e", "t">>

\* the other brands: every string of letters and hyphens up to a length
MaxBrandLen == 4

BrandAlphabet == {"a", "b", "-"}

Brands ==
  {BrandPhet, BrandPhetIO, BrandAdaptedFromPhet}
    \cup StringsOver(BrandAlphabet, MaxBrandLen)

InitBrand ==
  /\ pc = "ready"
  /\ api1 = Unused
  /\ api2 = Unused
  /\ problems = <<>>
  /\ args \in {[brand |-> brand] : brand \in Brands}
  /\ result = Unused

CallBrandToSuffix ==
  /\ pc = "ready"
  /\ IF BrandToSuffixThrows(args.brand)
     THEN /\ pc' = "thrown"
          /\ UNCHANGED result
     ELSE /\ pc' = "done"
          /\ result' = BrandToSuffix(args.brand)
  /\ UNCHANGED <<api1, api2, problems, args>>

NextBrand == CallBrandToSuffix

SpecBrand == InitBrand /\ [][NextBrand]_vars

\* C15: the suffix of 'phet' is '-phet', of 'phet-io' '-phetio' and of
\* 'adapted-from-phet' '-adaptedFromPhet'
BrandSuffixAsDocumented ==
  pc = "done" =>
    /\ args.brand = BrandPhet => result = <<"-", "p", "h", "e", "t">>
    /\ args.brand = BrandPhetIO
         => result = <<"-", "p", "h", "e", "t", "i", "o">>
    /\ args.brand = BrandAdaptedFromPhet
         => result = <<"-", "a", "d", "a", "p", "t", "e", "d", "F", "r", "o", "m",
                       "P", "h", "e", "t">>

\* what the code returns for the three: a hyphen, then the bits with the
\* first letter of every bit but the first in upper case
BrandSuffixCamelCase ==
  pc = "done" =>
    /\ args.brand = BrandPhet => result = <<"-", "p", "h", "e", "t">>
    /\ args.brand = BrandPhetIO
         => result = <<"-", "p", "h", "e", "t", "I", "o">>
    /\ args.brand = BrandAdaptedFromPhet
         => result = <<"-", "a", "d", "a", "p", "t", "e", "d", "F", "r", "o", "m",
                       "P", "h", "e", "t">>

BrandSuffixWitness ==
  /\ pc = "done"
  /\ args.brand = BrandPhetIO
  /\ result = <<"-", "p", "h", "e", "t", "I", "o">>

(***************************************************************************)
(* ChipperStringUtils.padString                                            *)
(***************************************************************************)

\* the loop appends one space as long as the string is shorter than n
RECURSIVE PadString(_, _)
PadString(str, n) ==
  IF Len(str) < n THEN PadString(str \o <<" ">>, n) ELSE str

\* n spaces
Spaces(n) == [i \in 1..n |-> " "]

\* the strings to pad, up to a length, and the counts n >= 0
MaxPadStrLen == 3

MaxPadCount == 4

PadAlphabet == {"a", " "}

InitPad ==
  /\ pc = "ready"
  /\ api1 = Unused
  /\ api2 = Unused
  /\ problems = <<>>
  /\ args \in [str : StringsOver(PadAlphabet, MaxPadStrLen), n : 0..MaxPadCount]
  /\ result = Unused

CallPadString ==
  /\ pc = "ready"
  /\ pc' = "done"
  /\ result' = PadString(args.str, args.n)
  /\ UNCHANGED <<api1, api2, problems, args>>

NextPad == CallPadString

SpecPad == InitPad /\ [][NextPad]_vars

\* C16: the result is str followed by exactly n spaces
PadAppendsCount ==
  pc = "done" => result = args.str \o Spaces(args.n)

\* what the code returns: str followed by the spaces that bring it to the
\* length n, and str itself when it is that long already
PadToLength ==
  pc = "done" =>
    /\ \E k \in 0..args.n : result = args.str \o Spaces(k)
    /\ Len(result) = (IF Len(args.str) < args.n THEN args.n ELSE Len(args.str))

PadToLengthWitness ==
  /\ pc = "done"
  /\ args.str = <<"a", "a">>
  /\ args.n = 3
  /\ result = <<"a", "a", " ">>

(***************************************************************************)
(* ChipperStringUtils.replacePlaceholders                                  *)
(*                                                                         *)
(* The mapping is an object as above: its keys in the order of             *)
(* Object.keys, and its props.  The loop that replaces the occurrences of  *)
(* one key does not end when the replacement brings the placeholder back;  *)
(* the model follows it for MaxIterations replacements and takes a loop    *)
(* that is still running then as one that never ends.                      *)
(***************************************************************************)

\* '{{' + key + '}}'
Placeholder(key) == <<"{", "{">> \o key \o <<"}", "}">>

MaxIterations == 4

\* the while loop for one key: the string it ends with, or loops
RECURSIVE ReplaceOccurrences(_, _, _, _)
ReplaceOccurrences(str, key, replacement, budget) ==
  LET index == IndexOf(str, key)
  IN  IF index < 0
      THEN [str |-> str, loops |-> FALSE]
      ELSE IF budget = 0
      THEN [str |-> str, loops |-> TRUE]
      ELSE ReplaceOccurrences(
             Slice(str, 0, index) \o replacement \o SliceFrom(str, index + Len(key)),
             key, replacement, budget - 1)

\* the first forEach: the keys in the order of Object.keys, each on the
\* string the keys before it left
RECURSIVE ReplacementPass(_, _, _)
ReplacementPass(str, mapping, keys) ==
  IF keys = <<>>
  THEN [str |-> str, loops |-> FALSE]
  ELSE LET replaced == ReplaceOccurrences(str, Placeholder(Head(keys)),
                                          mapping.props[Head(keys)], MaxIterations)
       IN  IF replaced.loops
           THEN replaced
           ELSE ReplacementPass(replaced.str, mapping, Tail(keys))

\* LeftoverKeys when the second forEach finds nothing
LeftoverKeysNone(str, keys) == <<>>

\* the second forEach: the keys whose placeholder is in the string, in order
LeftoverKeys(str, keys) ==
  SelectSeq(keys, LAMBDA key : IndexOf(str, Placeholder(key)) >= 0)

\* the Error thrown for the first of them
TemplateError(str, key) ==
  [name |-> "Error",
   message |-> "Template string detected in placeholders: ",
   key |-> key,
   text |-> Slice(str, 0, IndexOf(str, Placeholder(key)) + 10)]

\* the templates and the replacements are put together from these pieces
MaxPieces == 2

KeyA == <<"a">>

KeyB == <<"b">>

Pieces ==
  {Placeholder(KeyA), Placeholder(KeyB), <<"{", "{">>, <<"}", "}">>, <<"a">>, <<"x">>}

RECURSIVE Templates(_)
Templates(n) ==
  IF n = 0 THEN {<<>>}
  ELSE Templates(n - 1) \cup {t \o piece : t \in Templates(n - 1), piece \in Pieces}

Replacements == {<<>>} \cup Pieces

Mappings ==
  UNION {{[keys |-> ks, props |-> props] : props \in [Range(ks) -> Replacements]}
           : ks \in KeyOrders({KeyA, KeyB}, 2)}

InitPlaceholders ==
  /\ pc = "ready"
  /\ api1 = Unused
  /\ api2 = Unused
  /\ problems = <<>>
  /\ args \in [str : Templates(MaxPieces), mapping : Mappings]
  /\ result = Unused

CallReplacePlaceholders ==
  /\ pc = "ready"
  /\ LET replaced == ReplacementPass(args.str, args.mapping, ObjectKeys(args.mapping))
         leftover == LeftoverKeys(replaced.str, ObjectKeys(args.mapping))
     IN  IF replaced.loops
         THEN /\ pc' = "looping"
              /\ UNCHANGED result
         ELSE IF leftover /= <<>>
         THEN /\ pc' = "thrown"
              /\ result' = TemplateError(replaced.str, Head(leftover))
         ELSE /\ pc' = "done"
              /\ result' = replaced.str
  /\ UNCHANGED <<api1, api2, problems, args>>

NextPlaceholders == CallReplacePlaceholders

SpecPlaceholders == InitPlaceholders /\ [][NextPlaceholders]_vars

\* the string the replacement pass leaves, for a call that got through it
AfterPass == ReplacementPass(args.str, args.mapping, ObjectKeys(args.mapping)).str

PlaceholderLeft(str) ==
  \E key \in Range(ObjectKeys(args.mapping)) : IndexOf(str, Placeholder(key)) >= 0

\* C17: a string that is returned has no '{{key}}' of any key of the mapping
\* in it, and when the replacement pass leaves one the call throws an Error
\* that names such a key
NoPlaceholderReturned ==
  /\ pc = "done" => (result = AfterPass /\ ~PlaceholderLeft(result))
  /\ pc \in {"done", "thrown"} => (pc = "thrown" <=> PlaceholderLeft(AfterPass))
  /\ pc = "thrown"
       => /\ result.name = "Error"
          /\ result.key \in Range(ObjectKeys(args.mapping))
          /\ IndexOf(result.text, Placeholder(result.key)) >= 0

\* a placeholder that was not in the template, brought in by the replacement
\* of a later key
NoPlaceholderReturnedWitness ==
  /\ pc = "thrown"
  /\ ObjectKeys(args.mapping) = <<KeyA, KeyB>>
  /\ IndexOf(args.str, Placeholder(KeyA)) < 0
  /\ args.mapping.props[KeyB] = Placeholder(KeyA)
  /\ result.key = KeyA

\* a call that returns after it has replaced both keys
PlaceholdersReplacedWitness ==
  /\ pc = "done"
  /\ args.str = Placeholder(KeyB) \o Placeholder(KeyA)
  /\ args.mapping.props = (KeyA :> <<"x">> @@ KeyB :> Placeholder(KeyA))
  /\ result = <<"x", "x">>

\* a loop the model gave up on is one that never ends: the replacement has
\* the placeholder of its own key in it
LoopsForever ==
  pc = "looping" =>
    \E key \in Range(ObjectKeys(args.mapping)) :
      IndexOf(args.mapping.props[key], Placeholder(key)) >= 0

(***************************************************************************)
(* js/phet-io/formatPhetioAPI.js                                           *)
(*                                                                         *)
(* A jsonifiable value is a primitive with its JSON text, an array with    *)
(* its items, or an object with its keys in the order in which JavaScript  *)
(* enumerates them and, in items, the values of the keys in that order.    *)
(* JavaScript enumerates the keys that are array indices first, in         *)
(* ascending numeric order, and the other keys after them in the order in  *)
(* which they were inserted.  Texts here are TLA+ strings.                 *)
(***************************************************************************)

Prim(text) == [type |-> "prim", text |-> text, keys |-> <<>>, items |-> <<>>]

Array(items) == [type |-> "array", text |-> "", keys |-> <<>>, items |-> items]

Object(keys, items) == [type |-> "object", text |-> "", keys |-> keys, items |-> items]

\* the keys of the model in the order of their UTF-16 code units, which is
\* the order of Array.prototype.sort without a comparator
CodeUnitOrder == <<"10", "9", "a", "b">>

\* the keys among them that are array indices, in numeric order
IndexOrder == <<"9", "10">>

IsIndexKey(key) == key \in Range(IndexOrder)

\* the order in which an object enumerates keys inserted in this order
EnumerationOrder(inserted) ==
  SelectSeq(IndexOrder, LAMBDA key : key \in Range(inserted))
    \o SelectSeq(inserted, LAMBDA key : ~IsIndexKey(key))

\* unordered[ key ]
ValueOf(object, key) ==
  object.items[CHOOSE i \in 1..Len(object.keys) : object.keys[i] = key]

\* SortKeys that leaves the keys as they are
SortKeysKept(keys) == keys

\* Object.keys( unordered ).sort()
SortKeys(keys) == SelectSeq(CodeUnitOrder, LAMBDA key : key \in Range(keys))

RECURSIVE CopyWithSortedKeys(_)
CopyWithSortedKeys(unordered) ==
  IF unordered.type = "array"
  THEN Array([i \in 1..Len(unordered.items) |-> CopyWithSortedKeys(unordered.items[i])])
  ELSE IF unordered.type /= "object"
  THEN unordered
  ELSE LET ordered == EnumerationOrder(SortKeys(ObjectKeys(unordered)))
       IN  Object(ordered,
                  [i \in 1..Len(ordered) |->
                     CopyWithSortedKeys(ValueOf(unordered, ordered[i]))])

\* indent spaces
RECURSIVE Indent(_)
Indent(indent) == IF indent = 0 THEN "" ELSE " " \o Indent(indent - 1)

\* the lines of one member of an array or object: the first after the
\* indentation and the key, the last before the comma
MemberLines(lines, prefix, comma) ==
  [i \in 1..Len(lines) |->
     (IF i = 1 THEN prefix ELSE "") \o lines[i] \o (IF i = Len(lines) THEN comma ELSE "")]

RECURSIVE ConcatLines(_)
ConcatLines(blocks) ==
  IF blocks = <<>> THEN <<>> ELSE Head(blocks) \o ConcatLines(Tail(blocks))

\* the lines of JSON.stringify( value, null, 2 ) for a value at a depth of
\* indent spaces
RECURSIVE StringifyLines(_, _)
StringifyLines(value, indent) ==
  LET n == Len(value.items)
      member(i) ==
        MemberLines(StringifyLines(value.items[i], indent + 2),
                    Indent(indent + 2)
                      \o (IF value.type = "object"
                          THEN "\"" \o value.keys[i] \o "\": "
                          ELSE ""),
                    IF i < n THEN "," ELSE "")
  IN  IF value.type = "prim" THEN <<value.text>>
      ELSE IF n = 0 THEN <<IF value.type = "array" THEN "[]" ELSE "{}">>
      ELSE <<IF value.type = "array" THEN "[" ELSE "{">>
             \o ConcatLines([i \in 1..n |-> member(i)])
             \o <<Indent(indent) \o (IF value.type = "array" THEN "]" ELSE "}")>>

\* module.exports: the lines joined by the newlines, every newline then
\* replaced by a newline and two spaces
FormatPhetioAPI(api) ==
  Join(StringifyLines(CopyWithSortedKeys(api), 0), "\n" \o "  ")

\* the values: primitives, arrays and objects of up to MaxWidth primitives,
\* and arrays and objects of one of these or of one of these and a small one
MaxWidth == 2

KeyPool == Range(CodeUnitOrder)

Prims == {Prim("1"), Prim("null")}

ArraysOf(values, n) == {Array(items) : items \in UNION {[1..len -> values] : len \in 0..n}}

ObjectsOf(values, n) ==
  UNION {{Object(EnumerationOrder(inserted), items) : items \in [1..Len(inserted) -> values]}
           : inserted \in KeyOrders(KeyPool, n)}

InnerValues == Prims \cup ArraysOf(Prims, MaxWidth) \cup ObjectsOf(Prims, MaxWidth)

SmallValues == Prims \cup ObjectsOf({Prim("1")}, 1)

InitSortedKeys ==
  /\ pc = "ready"
  /\ api1 = Unused
  /\ api2 = Unused
  /\ problems = <<>>
  /\ args \in {[api |-> api] :
                 api \in InnerValues
                           \cup {Array(<<v>>) : v \in InnerValues}
                           \cup {Array(<<v, w>>) : v \in InnerValues, w \in SmallValues}
                           \cup {Object(<<key>>, <<v>>) : key \in KeyPool, v \in InnerValues}
                           \cup {Object(inserted, <<v, w>>) :
                                   inserted \in {EnumerationOrder(ks) :
                                                   ks \in KeyOrders(KeyPool, 2) \ KeyOrders(KeyPool, 1)},
                                   v \in InnerValues, w \in SmallValues}}
  /\ result = Unused

CallFormatPhetioAPI ==
  /\ pc = "ready"
  /\ pc' = "done"
  /\ result' = [copy |-> CopyWithSortedKeys(args.api), text |-> FormatPhetioAPI(args.api)]
  /\ UNCHANGED <<api1, api2, problems, args>>

NextSortedKeys == CallFormatPhetioAPI

SpecSortedKeys == InitSortedKeys /\ [][NextSortedKeys]_vars

\* the objects in a value, at every level
RECURSIVE ObjectsIn(_)
ObjectsIn(value) ==
  (IF value.type = "object" THEN {value} ELSE {})
    \cup UNION {ObjectsIn(value.items[i]) : i \in 1..Len(value.items)}

\* the same content: the same primitive, arrays with the same content item
\* by item, objects with the same keys and the same content under each
RECURSIVE SameContent(_, _)
SameContent(a, b) ==
  /\ a.type = b.type
  /\ a.text = b.text
  /\ Len(a.items) = Len(b.items)
  /\ a.type = "array" => \A i \in 1..Len(a.items) : SameContent(a.items[i], b.items[i])
  /\ a.type = "object"
       => /\ Range(a.keys) = Range(b.keys)
          /\ \A key \in Range(a.keys) : SameContent(ValueOf(a, key), ValueOf(b, key))

\* a sequence of keys in the order of sort
CodeUnitSorted(keys) == keys = SortKeys(keys)

\* the values that differ from a value in the insertion order of keys only
RECURSIVE Reorderings(_)
Reorderings(value) ==
  LET n == Len(value.items)
      choices == {items \in [1..n -> UNION {Reorderings(value.items[i]) : i \in 1..n}] :
                    \A i \in 1..n : items[i] \in Reorderings(value.items[i])}
  IN  IF value.type = "prim" THEN {value}
      ELSE IF value.type = "array" THEN {Array(items) : items \in choices}
      ELSE {Object(EnumerationOrder(inserted),
                   [i \in 1..n |->
                      items[CHOOSE j \in 1..n :
                              value.keys[j] = EnumerationOrder(inserted)[i]]]) :
              inserted \in {ks \in KeyOrders(Range(value.keys), n) : Len(ks) = n},
              items \in choices}

IndexKeysWitness ==
  /\ pc = "done"
  /\ \E object \in ObjectsIn(result.copy) :
       /\ ObjectKeys(object) = <<"9", "10">>
       /\ SortKeys(ObjectKeys(object)) = <<"10", "9">>

(***************************************************************************)
(* js/grunt/getBuildConfig.js                                              *)
(*                                                                         *)
(* The arguments of the call are what it reads: package.json, build.json,  *)
(* build-local.json, the grunt options brand, locales and localesRepo,     *)
(* whether the together API file exists, and the directories of ../babel.  *)
(* An entry of a JSON object that may be missing is a record with the flag *)
(* defined.  Texts here are TLA+ strings, but for the locales option and   *)
(* the names of the files in ../babel, which the code takes apart: these   *)
(* are sequences of characters, and TextOf makes the text of one.  Of the  *)
(* entries of buildConfig the model has name, version, license,            *)
(* simTitleStringKey, brand, fallbackLocale, phetLibs, preload, locales    *)
(* and, of gruntConfig, pkg; licenseKeys and the rest of gruntConfig       *)
(* change none of these and cannot throw where getPhetLibs did not.        *)
(***************************************************************************)

\* a missing array, and a missing string
None == [defined |-> FALSE, value |-> <<>>]

NoString == [defined |-> FALSE, value |-> ""]

Some(value) == [defined |-> TRUE, value |-> value]

\* the script paths and repository names of the model, in the order of
\* their UTF-16 code units, which is the order of Array.prototype.sort
\* without a comparator
StringOrder ==
  <<"../assert/js/assert.js", "../sherpa/lib/lodash.js",
    "../together/js/api/sim-api.js", "../together/js/together.js",
    "assert", "joist", "scenery", "sim", "together">>

CodeUnitRank(string) == CHOOSE i \in 1..Len(StringOrder) : StringOrder[i] = string

\* array.sort(): insertion of every element before the first greater one
RECURSIVE SortArray(_)
SortArray(array) ==
  IF array = <<>> THEN <<>>
  ELSE LET sorted == SortArray(Tail(array))
           smaller == SelectSeq(sorted, LAMBDA e : CodeUnitRank(e) <= CodeUnitRank(Head(array)))
           greater == SelectSeq(sorted, LAMBDA e : CodeUnitRank(e) > CodeUnitRank(Head(array)))
       IN  smaller \o <<Head(array)>> \o greater

\* _.uniq( array ): the first occurrence of every element
RECURSIVE Uniq(_)
Uniq(array) ==
  IF array = <<>> THEN <<>>
  ELSE LET front == Uniq(SubSeq(array, 1, Len(array) - 1))
           last  == array[Len(array)]
       IN  IF Includes(front, last) THEN front ELSE front \o <<last>>

\* grunt.option( 'brand' ) || buildLocalJSON.brand || 'adapted-from-phet'
GetBrand(option, buildLocalJSON) ==
  IF option.defined THEN option.value
  ELSE IF buildLocalJSON.brand.defined THEN buildLocalJSON.brand.value
  ELSE "adapted-from-phet"

\* buildJSON[ id ] && buildJSON[ id ].phetLibs
HasPhetLibs(buildJSON, id) == id \in DOMAIN buildJSON /\ buildJSON[id].phetLibs.defined

\* packageJSON.phet.phetLibs of a package.json without phet is a read of a
\* property of undefined
GetPhetLibsThrows(packageJSON) == ~packageJSON.phet.defined

\* the array the function starts with, after the push of the name
PushedPhetLibs(packageJSON) ==
  (IF packageJSON.phet.phetLibs.defined THEN packageJSON.phet.phetLibs.value ELSE <<>>)
    \o <<packageJSON.name>>

\* the array after the forEach over 'common' and the brand
ConcatPhetLibs(packageJSON, buildJSON, brand) ==
  PushedPhetLibs(packageJSON)
    \o (IF HasPhetLibs(buildJSON, "common") THEN buildJSON["common"].phetLibs.value ELSE <<>>)
    \o (IF HasPhetLibs(buildJSON, brand) THEN buildJSON[brand].phetLibs.value ELSE <<>>)

\* GetPhetLibs without the sort
GetPhetLibsUnsorted(packageJSON, buildJSON, brand) ==
  Uniq(ConcatPhetLibs(packageJSON, buildJSON, brand))

GetPhetLibs(packageJSON, buildJSON, brand) ==
  Uniq(SortArray(ConcatPhetLibs(packageJSON, buildJSON, brand)))

\* package.json after getPhetLibs: the push is on the array of package.json
\* when it has one, and so is the sort when no concat made a new array
PackageAfterPhetLibs(packageJSON, buildJSON, brand) ==
  IF ~packageJSON.phet.phetLibs.defined
  THEN packageJSON
  ELSE [packageJSON EXCEPT !.phet.phetLibs.value =
          IF HasPhetLibs(buildJSON, "common") \/ HasPhetLibs(buildJSON, brand)
          THEN PushedPhetLibs(packageJSON)
          ELSE SortArray(PushedPhetLibs(packageJSON))]

\* buildJSON[ id ] && buildJSON[ id ].preload
HasPreload(buildJSON, id) == id \in DOMAIN buildJSON /\ buildJSON[id].preload.defined

\* '../together/js/api/' + packageJSON.name + '-api.js'
TogetherAPIFilename(packageJSON) == "../together/js/api/" \o packageJSON.name \o "-api.js"

\* the assert on the together API file
GetPreloadThrows(brand, togetherAPIExists) == brand = "phet-io" /\ ~togetherAPIExists

\* the array before the sort: the common, the sim-specific and the
\* brand-specific preloads and the together API file
ConcatPreload(packageJSON, buildJSON, brand) ==
  (IF HasPreload(buildJSON, "common") THEN buildJSON["common"].preload.value ELSE <<>>)
    \o (IF packageJSON.preload.defined THEN packageJSON.preload.value ELSE <<>>)
    \o (IF HasPreload(buildJSON, brand) THEN buildJSON[brand].preload.value ELSE <<>>)
    \o (IF brand = "phet-io" THEN <<TogetherAPIFilename(packageJSON)>> ELSE <<>>)

GetPreload(packageJSON, buildJSON, brand) ==
  Uniq(SortArray(ConcatPreload(packageJSON, buildJSON, brand)))

\* the asserts on package.json: the message of the first that fails
PackageAssertion(packageJSON) ==
  IF packageJSON.name = "" THEN Some("name missing from package.json")
  ELSE IF packageJSON.version = "" THEN Some("version missing from package.json")
  ELSE IF packageJSON.license = "" THEN Some("license missing from package.json")
  ELSE NoString

\* the text of a sequence of characters
RECURSIVE TextOf(_)
TextOf(chars) == IF chars = <<>> THEN "" ELSE Head(chars) \o TextOf(Tail(chars))

\* String.prototype.lastIndexOf: the 0-based index of the last occurrence,
\* -1 when there is none
LastIndexOf(str, pattern) ==
  LET found == {i \in 0..(Len(str) - Len(pattern)) :
                  SubSeq(str, i + 1, i + Len(pattern)) = pattern}
  IN  IF found = {} THEN -1 ELSE CHOOSE i \in found : \A j \in found : i >= j

\* String.prototype.substring( start, end ), for indices that are at most
\* the length: the smaller of the two is the start
Substring(str, start, end) ==
  IF start <= end THEN Slice(str, start, end) ELSE Slice(str, end, start)

\* str.split( separator ) for a separator of one character
RECURSIVE SplitBy(_, _)
SplitBy(str, separator) ==
  LET i == IndexOf(str, <<separator>>)
  IN  IF i < 0
      THEN <<str>>
      ELSE <<Slice(str, 0, i)>> \o SplitBy(SliceFrom(str, i + 1), separator)

\* (/^.*-strings.*\.json/).test( filename )
IsStringFile(filename) ==
  LET strings == <<"-", "s", "t", "r", "i", "n", "g", "s">>
      i == IndexOf(filename, strings)
  IN  /\ i >= 0
      /\ \E j \in (i + Len(strings))..Len(filename) :
            SubSeq(filename, j + 1, j + 5) = <<".", "j", "s", "o", "n">>

\* filename.substring( filename.indexOf( '_' ) + 1, filename.lastIndexOf( '.' ) )
LocaleOfFile(filename) ==
  Substring(filename, IndexOf(filename, <<"_">>) + 1, LastIndexOf(filename, <<".">>))

\* what a call returns: an array, or the error it throws
Returned(array) == [error |-> "", message |-> "", value |-> array]

Thrown(error, message) == [error |-> error, message |-> message, value |-> <<>>]

\* '../babel/' + repository
StringsDirectory(repository) == "../babel/" \o repository

\* getLocalesFromRepository; babel has, for a repository with an entry in
\* ../babel, whether the entry is a directory and the names of its files
GetLocalesFromRepository(babel, repository) ==
  LET stringsDirectory == StringsDirectory(repository)
  IN  IF repository \notin DOMAIN babel
      THEN Thrown("Error", "ENOENT: no such file or directory, stat '"
                             \o stringsDirectory \o "'")
      ELSE IF ~babel[repository].isDirectory
      THEN Thrown("AssertionError", stringsDirectory \o "is not a directory")
      ELSE LET stringFiles == SelectSeq(babel[repository].files, IsStringFile)
           IN  IF Len(stringFiles) = 0
               THEN Thrown("AssertionError", "no string files found in " \o stringsDirectory)
               ELSE Returned([i \in 1..Len(stringFiles) |->
                                TextOf(LocaleOfFile(stringFiles[i]))])

\* the precedence of getLocales the other way round: localesRepo first
GetLocalesRepoFirst(locales, localesRepo, babel, repository, fallbackLocale) ==
  IF localesRepo.defined /\ localesRepo.value /= ""
  THEN GetLocalesFromRepository(babel, localesRepo.value)
  ELSE IF locales.defined /\ locales.value /= <<>>
  THEN IF locales.value = <<"*">>
       THEN GetLocalesFromRepository(babel, repository)
       ELSE LET parts == SplitBy(locales.value, ",")
            IN  Returned(Uniq([i \in 1..Len(parts) |-> TextOf(parts[i])]))
  ELSE Returned(<<fallbackLocale>>)

\* getLocales; locales and localesRepo are the grunt options
GetLocales(locales, localesRepo, babel, repository, fallbackLocale) ==
  IF locales.defined /\ locales.value /= <<>>
  THEN IF locales.value = <<"*">>
       THEN GetLocalesFromRepository(babel, repository)
       ELSE LET parts == SplitBy(locales.value, ",")
            IN  Returned(Uniq([i \in 1..Len(parts) |-> TextOf(parts[i])]))
  ELSE IF localesRepo.defined /\ localesRepo.value /= ""
  THEN GetLocalesFromRepository(babel, localesRepo.value)
  ELSE Returned(<<fallbackLocale>>)

\* the lists of scripts, up to a length
MaxPreload == 2

CommonScripts == {"../sherpa/lib/lodash.js", "../assert/js/assert.js"}

ScriptLists == {None} \cup {Some(list) : list \in StringsOver(CommonScripts, MaxPreload)}

\* package.json: a complete one with every preload, with and without phet
\* and phetLibs, and the ones that miss the name, the version or the license
CompletePackage ==
  [name |-> "sim", version |-> "1.0.0", license |-> "GPL-3.0",
   simTitleStringKey |-> "SIM/sim.name", preload |-> None,
   phet |-> [defined |-> TRUE, phetLibs |-> None]]

Packages ==
  {[CompletePackage EXCEPT !.preload = preload, !.phet = phet] :
     preload \in ScriptLists,
     phet \in {[defined |-> FALSE, phetLibs |-> None],
               [defined |-> TRUE, phetLibs |-> None],
               [defined |-> TRUE, phetLibs |-> Some(<<"scenery", "joist">>)]}}
    \cup {[CompletePackage EXCEPT !.name = ""],
          [CompletePackage EXCEPT !.version = ""],
          [CompletePackage EXCEPT !.license = ""]}

\* build.json: with or without common, and one entry for the brands phet and
\* phet-io or none
CommonEntries ==
  {[preload |-> None, phetLibs |-> None]}
    \cup {[preload |-> preload, phetLibs |-> Some(<<"joist", "assert">>)] :
            preload \in ScriptLists \ {None}}

BrandEntries ==
  {[preload |-> preload, phetLibs |-> Some(<<"together">>)] :
     preload \in {None, Some(<<"../together/js/together.js">>),
                  Some(<<"../sherpa/lib/lodash.js">>)}}

BuildJSONs ==
  {[id \in {} |-> None]}
    \cup {[id \in {"common"} |-> common] : common \in CommonEntries}
    \cup {[id \in {"phet", "phet-io"} |-> entry] : entry \in BrandEntries}
    \cup {[id \in {"common", "phet", "phet-io"} |-> IF id = "common" THEN common ELSE entry] :
            common \in CommonEntries, entry \in BrandEntries}

\* the brand option, build-local.json, and the file system
BrandSources ==
  {[option |-> option, buildLocalJSON |-> [brand |-> brand], togetherAPIExists |-> exists] :
     option \in {NoString, Some("phet"), Some("phet-io")},
     brand \in {NoString, Some("phet")},
     exists \in BOOLEAN}

\* the locales option: missing, empty, '*', or up to MaxLocales locales
\* with commas between them
MaxLocales == 2

LocaleFR == <<"f", "r">>

LocaleAR == <<"a", "r", "_", "S", "A">>

RECURSIVE JoinChars(_, _)
JoinChars(list, separator) ==
  IF list = <<>> THEN <<>>
  ELSE IF Len(list) = 1 THEN list[1]
  ELSE list[1] \o <<separator>> \o JoinChars(Tail(list), separator)

LocalesOptions ==
  {None, Some(<<"*">>)}
    \cup {Some(JoinChars(list, ",")) : list \in StringsOver({LocaleFR, LocaleAR}, MaxLocales)}

\* the directories of ../babel: an entry for sim and for other or none, each
\* a file, or a directory with these files
StringFile(repository, locale) ==
  repository \o <<"-", "s", "t", "r", "i", "n", "g", "s", "_">> \o locale
    \o <<".", "j", "s", "o", "n">>

Readme == <<"R", "E", "A", "D", "M", "E", ".", "m", "d">>

BabelEntries(repository) ==
  {[isDirectory |-> FALSE, files |-> <<>>]}
    \cup {[isDirectory |-> TRUE, files |-> files] :
            files \in {<<>>, <<Readme>>,
                       <<StringFile(repository, LocaleFR)>>,
                       <<StringFile(repository, LocaleAR), StringFile(repository, LocaleFR)>>,
                       <<Readme, StringFile(repository, <<"e", "s">>)>>,
                       <<repository \o <<"-", "s", "t", "r", "i", "n", "g", "s",
                                         ".", "j", "s", "o", "n">>>>}}

Babels ==
  {[repository \in {} |-> None]}
    \cup {[repository \in {"sim"} |-> sim] : sim \in BabelEntries(<<"s", "i", "m">>)}
    \cup {[repository \in {"other"} |-> other] :
            other \in BabelEntries(<<"o", "t", "h", "e", "r">>)}
    \cup {[repository \in {"sim", "other"} |-> IF repository = "sim" THEN sim ELSE other] :
            sim \in BabelEntries(<<"s", "i", "m">>),
            other \in BabelEntries(<<"o", "t", "h", "e", "r">>)}

\* the calls: every package.json and build.json above without the locale
\* options, and one package.json and build.json with every locale option
PreloadCalls ==
  {[packageJSON |-> packageJSON, buildJSON |-> buildJSON,
    option |-> source.option, buildLocalJSON |-> source.buildLocalJSON,
    togetherAPIExists |-> source.togetherAPIExists,
    locales |-> None, localesRepo |-> NoString, babel |-> [repository \in {} |-> None]] :
     packageJSON \in Packages, buildJSON \in BuildJSONs,
     source \in {b \in BrandSources : b.togetherAPIExists => b.option = Some("phet-io")}}

LocalesCalls ==
  {[packageJSON |-> CompletePackage, buildJSON |-> [id \in {} |-> None],
    option |-> NoString, buildLocalJSON |-> [brand |-> NoString],
    togetherAPIExists |-> FALSE,
    locales |-> locales, localesRepo |-> localesRepo, babel |-> babel] :
     locales \in LocalesOptions, localesRepo \in {NoString, Some("other")},
     babel \in Babels}

\* and the calls with every list of up to MaxPhetLibs repositories in
\* package.json, and build.json with and without phetLibs for common and
\* for the brand
MaxPhetLibs == 2

PhetLibsLists ==
  {None} \cup {Some(list) : list \in StringsOver({"scenery", "joist", "sim"}, MaxPhetLibs)}

PhetLibsBuildJSONs ==
  {[id \in {} |-> None]}
    \cup {[id \in {"common"} |-> [preload |-> None, phetLibs |-> common]] :
            common \in {None, Some(<<>>), Some(<<"joist", "assert">>)}}
    \cup {[id \in {"common", "phet"} |->
             [preload |-> None, phetLibs |-> IF id = "common" THEN common ELSE brand]] :
            common \in {None, Some(<<"joist", "assert">>)},
            brand \in {None, Some(<<"together", "assert">>), Some(<<"joist">>)}}

PhetLibsCalls ==
  {[packageJSON |-> [CompletePackage EXCEPT !.phet.phetLibs = phetLibs],
    buildJSON |-> buildJSON,
    option |-> option, buildLocalJSON |-> [brand |-> NoString],
    togetherAPIExists |-> FALSE,
    locales |-> None, localesRepo |-> NoString, babel |-> [repository \in {} |-> None]] :
     phetLibs \in PhetLibsLists, buildJSON \in PhetLibsBuildJSONs,
     option \in {NoString, Some("phet")}}

InitBuildConfig ==
  /\ pc = "ready"
  /\ api1 = Unused
  /\ api2 = Unused
  /\ problems = <<>>
  /\ args \in PreloadCalls \cup LocalesCalls \cup PhetLibsCalls
  /\ result = Unused

GetBuildConfig ==
  /\ pc = "ready"
  /\ LET packageJSON == args.packageJSON
         buildJSON   == args.buildJSON
         brand       == GetBrand(args.option, args.buildLocalJSON)
         locales     == GetLocales(args.locales, args.localesRepo, args.babel,
                                   packageJSON.name, "en")
     IN  IF PackageAssertion(packageJSON).defined
         THEN /\ pc' = "thrown"
              /\ result' = [error |-> "AssertionError",
                            message |-> PackageAssertion(packageJSON).value]
         ELSE IF GetPhetLibsThrows(packageJSON)
         THEN /\ pc' = "thrown"
              /\ result' = [error |-> "TypeError", message |-> "phetLibs of undefined"]
         ELSE IF GetPreloadThrows(brand, args.togetherAPIExists)
         THEN /\ pc' = "thrown"
              /\ result' = [error |-> "AssertionError",
                            message |-> "together API file does not exist: "
                                          \o TogetherAPIFilename(packageJSON)]
         ELSE IF locales.error /= ""
         THEN /\ pc' = "thrown"
              /\ result' = [error |-> locales.error, message |-> locales.message]
         ELSE /\ pc' = "done"
              /\ result' = [name |-> packageJSON.name,
                            version |-> packageJSON.version,
                            license |-> packageJSON.name,
                            simTitleStringKey |-> packageJSON.simTitleStringKey,
                            brand |-> brand,
                            fallbackLocale |-> "en",
                            phetLibs |-> GetPhetLibs(packageJSON, buildJSON, brand),
                            preload |-> GetPreload(packageJSON, buildJSON, brand),
                            locales |-> locales.value,
                            gruntConfig |->
                              [pkg |-> PackageAfterPhetLibs(packageJSON, buildJSON, brand)]]
  /\ UNCHANGED <<api1, api2, problems, args>>

NextBuildConfig == GetBuildConfig

SpecBuildConfig == InitBuildConfig /\ [][NextBuildConfig]_vars

\* C19: the name, the version and the license of buildConfig are those of
\* package.json
ReflectsPackage ==
  pc = "done" =>
    /\ result.name = args.packageJSON.name
    /\ result.version = args.packageJSON.version
    /\ result.license = args.packageJSON.license

\* what the code returns: the name and the version of package.json, and its
\* name again as the license
LicenseIsName ==
  pc = "done" =>
    /\ result.name = args.packageJSON.name
    /\ result.version = args.packageJSON.version
    /\ result.license = args.packageJSON.name

LicenseIsNameWitness ==
  /\ pc = "done"
  /\ args.packageJSON.license = "GPL-3.0"
  /\ result.license = "sim"

\* C20: preload has the common preloads, then those of package.json, then
\* those of the brand, then for the brand phet-io the together API file,
\* each of the lists in its order (a script that comes twice counted where
\* it comes first)
PreloadInOrder ==
  pc = "done" =>
    result.preload = Uniq(ConcatPreload(args.packageJSON, args.buildJSON, result.brand))

\* what the code returns: the same scripts, sorted
PreloadSorted ==
  pc = "done" =>
    /\ Range(result.preload)
         = Range(ConcatPreload(args.packageJSON, args.buildJSON, result.brand))
    /\ \A i, j \in 1..Len(result.preload) :
         i < j => CodeUnitRank(result.preload[i]) < CodeUnitRank(result.preload[j])

PreloadSortedWitness ==
  /\ pc = "done"
  /\ HasPreload(args.buildJSON, "common")
  /\ args.buildJSON["common"].preload = Some(<<"../sherpa/lib/lodash.js">>)
  /\ args.packageJSON.preload = Some(<<"../assert/js/assert.js">>)
  /\ result.preload = <<"../assert/js/assert.js", "../sherpa/lib/lodash.js">>

\* the locales option and the localesRepo option count as given when they
\* are not empty
LocalesGiven == args.locales.defined /\ args.locales.value /= <<>>

LocalesRepoGiven == args.localesRepo.defined /\ args.localesRepo.value /= ""

\* the locales of the files of a directory of ../babel whose names have
\* -strings and, after it, .json in them: what is between the first _ and
\* the last dot
LocalesIn(repository) ==
  LET files == SelectSeq(args.babel[repository].files, IsStringFile)
  IN  [i \in 1..Len(files) |-> TextOf(LocaleOfFile(files[i]))]

\* the locales of a list with commas, one after the other
RECURSIVE ListedLocales(_, _)
ListedLocales(chars, word) ==
  IF chars = <<>> THEN <<word>>
  ELSE IF Head(chars) = "," THEN <<word>> \o ListedLocales(Tail(chars), "")
  ELSE ListedLocales(Tail(chars), word \o Head(chars))

FirstOccurrences(list) ==
  SelectSeq([i \in 1..Len(list) |-> IF \E j \in 1..(i - 1) : list[j] = list[i]
                                    THEN "," ELSE list[i]],
            LAMBDA e : e /= ",")

\* C21: the locales are decided by the locales option alone when it is
\* given, '*' for the locales of the repository being built and a list for
\* its members without the repeated ones, whatever localesRepo is; else by
\* localesRepo when it is given; else they are the fallback locale alone
LocalesPrecedence ==
  pc = "done" =>
    /\ (LocalesGiven /\ args.locales.value = <<"*">>)
         => result.locales = LocalesIn(args.packageJSON.name)
    /\ (LocalesGiven /\ args.locales.value /= <<"*">>)
         => result.locales = FirstOccurrences(ListedLocales(args.locales.value, ""))
    /\ (~LocalesGiven /\ LocalesRepoGiven)
         => result.locales = LocalesIn(args.localesRepo.value)
    /\ (~LocalesGiven /\ ~LocalesRepoGiven)
         => result.locales = <<result.fallbackLocale>>

\* a list with a repeated locale, with localesRepo given and no such
\* directory in ../babel
LocalesPrecedenceWitness ==
  /\ pc = "done"
  /\ args.locales = Some(<<"a", "r", "_", "S", "A", ",", "f", "r">>)
  /\ args.localesRepo = Some("other")
  /\ "other" \notin DOMAIN args.babel
  /\ result.locales = <<"ar_SA", "fr">>

\* all the locales of the repository being built, with localesRepo given
LocalesOfRepositoryWitness ==
  /\ pc = "done"
  /\ args.locales = Some(<<"*">>)
  /\ args.localesRepo = Some("other")
  /\ "other" \in DOMAIN args.babel
  /\ args.babel["other"].isDirectory
  /\ Len(args.babel["other"].files) = 1
  /\ result.locales = <<"ar_SA", "fr">>

\* the locales of the other repository
LocalesRepoWitness ==
  /\ pc = "done"
  /\ ~LocalesGiven
  /\ args.localesRepo = Some("other")
  /\ result.locales = <<"es">>

\* the phetLibs of an entry of build.json, none when there is no such entry
PhetLibsOf(id) ==
  IF id \in DOMAIN args.buildJSON /\ args.buildJSON[id].phetLibs.defined
  THEN Range(args.buildJSON[id].phetLibs.value)
  ELSE {}

MaxProblemCount == 2

\* what compareMacroAPIs can do
MacroOutcomes ==
  {[throws |-> TRUE, problemCount |-> 0, formatted |-> ""]}
    \cup {[throws |-> FALSE, problemCount |-> count, formatted |-> formatted] :
            count \in 0..MaxProblemCount,
            formatted \in {"", "sim.x.phetioTypeName changed from A to B"}}

\* process.argv.slice( 2 ): no, one or two paths
Paths == {"macroapi1.json", "macroapi2.json"}

CommandLines == StringsOver(Paths, 2)

\* the files: missing, not JSON, or a JSON document
Files == [Paths -> {"missing", "invalid", "json"}]

\* JSON.parse( fs.readFileSync( args[ index ], 'utf8' ) ): the error it
\* throws, none for a document
ReadError(argv, files, index) ==
  IF index > Len(argv) THEN "TypeError"
  ELSE IF files[argv[index]] = "missing" THEN "Error"
  ELSE IF files[argv[index]] = "invalid" THEN "SyntaxError"
  ELSE ""

\* ProblemsFound whatever the count
ProblemsFoundAlways(comparison) == TRUE

\* result.problemCount > 0
ProblemsFound(comparison) == comparison.problemCount > 0

InitAdapter ==
  /\ pc = "ready"
  /\ api1 = Unused
  /\ api2 = Unused
  /\ problems = <<>>
  /\ args \in [argv : CommandLines, files : Files]
  /\ result = Unused

Uncaught(error) ==
  /\ pc' = "thrown"
  /\ result' = [error |-> error, stdout |-> <<>>, exitCode |-> 1]

RunAdapter ==
  /\ pc = "ready"
  /\ IF ReadError(args.argv, args.files, 1) /= ""
     THEN Uncaught(ReadError(args.argv, args.files, 1))
     ELSE IF ReadError(args.argv, args.files, 2) /= ""
     THEN Uncaught(ReadError(args.argv, args.files, 2))
     ELSE \E comparison \in MacroOutcomes :
            IF comparison.throws
            THEN Uncaught("Error")
            ELSE /\ pc' = "done"
                 /\ result' = [comparison |-> comparison,
                               stdout |-> IF ProblemsFound(comparison)
                                          THEN <<comparison.formatted>>
                                          ELSE <<>>,
                               exitCode |-> 0]
  /\ UNCHANGED <<api1, api2, problems, args>>

NextAdapter == RunAdapter

SpecAdapter == InitAdapter /\ [][NextAdapter]_vars

\* C23: the script writes the formatted report when the problem count is
\* greater than zero and only then, writes nothing when it is zero, and
\* leaves the exit status of the process as it is in both cases
PrintsIffProblems ==
  pc = "done" =>
    /\ result.comparison.problemCount > 0 <=> result.stdout = <<result.comparison.formatted>>
    /\ result.comparison.problemCount = 0 => result.stdout = <<>>
    /\ result.exitCode = 0

\* a comparison with problems, printed
PrintsIffProblemsWitness ==
  /\ pc = "done"
  /\ result.comparison.problemCount = 2
  /\ result.stdout = <<"sim.x.phetioTypeName changed from A to B">>
  /\ result.exitCode = 0

\* a comparison without problems, with a report that is not printed
PrintsNothingWitness ==
  /\ pc = "done"
  /\ result.comparison.problemCount = 0
  /\ result.comparison.formatted /= ""
  /\ result.stdout = <<>>
  /\ result.exitCode = 0

====
